---- MODULE Spec2Model ----
(***************************************************************************)
(* Skibbs: a four-wheeled person-following robot.                          *)
(*   src/drive.py  BTS7960Motor (one H-bridge: two PWM channels, two       *)
(*                 enable lines) and Drive (four named motors).            *)
(*   src/main.py   the control law (deviations -> wheel speeds) and the    *)
(*                 tracking loop with its try/finally shutdown.            *)
(* Every hardware access (acquire, write, close) is one step of the model, *)
(* so the states between two writes of one call are states of the model.   *)
(* Python floats are modelled as exact rationals <<numerator, denominator>>*)
(***************************************************************************)
EXTENDS Integers, Sequences, FiniteSets, TLC

VARIABLES
    drive,      \* the Drive object and the 16 hardware lines behind it
    pending,    \* states the call in progress still has to pass through
    pc,         \* position of the program
    call,       \* the coordinator / driver call in progress or last completed
    tick,       \* inputs and results of the current tracking-loop tick
    log,        \* calls issued by the finally block of main(), in order
    target_human_area,  \* main.py:164, NoTarget (None) until the first frame
    exit,       \* how the tracking loop was left
    hwfaults    \* the wheels whose writes and closes may fail

vars == <<drive, pending, pc, call, tick, log, target_human_area, exit,
          hwfaults>>

---------------------------------------------------------------------------
(* Bounds of the model *)

\* number of hardware lines that may fail during one call / one construction
MaxFaults == 1
\* requested speeds are the multiples of 1/SpeedSteps in [0,1]
SpeedSteps == 2

---------------------------------------------------------------------------
(* Rationals *)

RECURSIVE Gcd(_, _)
Gcd(a, b) == IF b = 0 THEN a ELSE Gcd(b, a % b)

Abs(n) == IF n < 0 THEN -n ELSE n

Rat(n, d) ==
    LET g == Gcd(Abs(n), Abs(d))
        s == IF d < 0 THEN -1 ELSE 1
    IN  <<(s * n) \div g, (s * d) \div g>>

Zero == Rat(0, 1)
One == Rat(1, 1)
RLt(a, b) == a[1] * b[2] < b[1] * a[2]
\* products and quotients cancel common factors before they multiply
RMul(a, b) ==
    LET g1 == Gcd(Abs(a[1]), b[2])
        g2 == Gcd(Abs(b[1]), a[2])
    IN  Rat((a[1] \div g1) * (b[1] \div g2), (a[2] \div g2) * (b[2] \div g1))
RSub(a, b) ==
    LET g == Gcd(a[2], b[2])
    IN  Rat(a[1] * (b[2] \div g) - b[1] * (a[2] \div g), (a[2] \div g) * b[2])
RDiv(a, b) == RMul(a, IF b[1] < 0 THEN <<-b[2], -b[1]>> ELSE <<b[2], b[1]>>)
RAbs(a) == <<Abs(a[1]), a[2]>>
\* Python's min(a, b) and max(a, b): the first argument unless the second is
\* strictly smaller (larger)
RMin(a, b) == IF RLt(b, a) THEN b ELSE a
RMax(a, b) == IF RLt(a, b) THEN b ELSE a

---------------------------------------------------------------------------
(* The hardware and the objects of drive.py *)

WheelOrder == <<"front_left", "front_right", "rear_left", "rear_right">>
Wheels == {WheelOrder[i] : i \in 1..Len(WheelOrder)}
PwmLines == {"rpmh", "lpmh"}
EnLines == {"r_en", "l_en"}
Lines == PwmLines \cup EnLines
\* the order in which BTS7960Motor.__init__ acquires them
LineOrder == <<"rpmh", "lpmh", "r_en", "l_en">>
Pins == Wheels \X Lines

\* the hard cap of forward() and backward()
DutyCap == Rat(1, 2)

\* A line attribute of a motor: "none" is Python's None, "open" an acquired
\* gpiozero device, "closed" a device after close(). val is the last value
\* written to the line (duty for a PWM channel, 1 = on for an enable line).
NoLine == [st |-> "none", val |-> Zero]

FreshMotor ==
    [rpmh |-> NoLine, lpmh |-> NoLine, r_en |-> NoLine, l_en |-> NoLine,
     initialized |-> FALSE]

FreshDrive ==
    [m |-> [w \in Wheels |-> FreshMotor],
     motors |-> <<>>,
     initialized_motors |-> <<>>,
     reset |-> FALSE]

\* Hardware faults of one call: the lines whose acquisition, write or close
\* raises.
NoBad == [acq |-> {}, wr |-> {}, cl |-> {}]

\* A run of a piece of code: the states passed through (the first is the
\* state it started in) and whether an exception is propagating.
Start(d) == [tr |-> <<d>>, exc |-> FALSE]
Cur(r) == r.tr[Len(r.tr)]
Push(r, d) == [r EXCEPT !.tr = Append(@, d)]
Raise(r) == [r EXCEPT !.exc = TRUE]
Caught(r) == [r EXCEPT !.exc = FALSE]

InSeq(x, s) == \E i \in 1..Len(s) : s[i] = x

\* PWMOutputDevice(pin) / OutputDevice(pin): raises when the pin cannot be
\* claimed; a new device is off
HwAcquire(r, w, l, bad) ==
    IF r.exc THEN r
    ELSE IF <<w, l>> \in bad.acq THEN Raise(r)
    ELSE Push(r, [Cur(r) EXCEPT !.m[w][l] = [st |-> "open", val |-> Zero]])

\* device.off(), device.on(), device.value = v: raises on None
\* (AttributeError), on a closed device, and when the hardware write fails
HwWrite(r, w, l, v, bad) ==
    IF r.exc THEN r
    ELSE IF Cur(r).m[w][l].st # "open" \/ <<w, l>> \in bad.wr THEN Raise(r)
    ELSE Push(r, [Cur(r) EXCEPT !.m[w][l].val = v])

\* "if self.x: self.x.close()"
HwCloseIfSet(r, w, l, bad) ==
    IF r.exc THEN r
    ELSE IF Cur(r).m[w][l].st = "none" THEN r
    ELSE IF <<w, l>> \in bad.cl THEN Raise(r)
    ELSE Push(r, [Cur(r) EXCEPT !.m[w][l].st = "closed"])

SetInitialized(r, w, b) ==
    IF r.exc THEN r
    ELSE Push(r, [Cur(r) EXCEPT !.m[w].initialized = b])

\* "if self.x: self.x.off()"
HwOffIfSet(r, w, l, bad) ==
    IF r.exc THEN r
    ELSE IF Cur(r).m[w][l].st = "none" THEN r
    ELSE HwWrite(r, w, l, Zero, bad)

\* a stop that turns off the reverse channel only
MotorStopReverseOnly(r, w, bad) ==
    IF r.exc THEN r
    ELSE IF ~Cur(r).m[w].initialized THEN r
    ELSE Caught(HwOffIfSet(r, w, "lpmh", bad))

\* a stop that turns off the forward channel only
MotorStopForwardOnly(r, w, bad) ==
    IF r.exc THEN r
    ELSE IF ~Cur(r).m[w].initialized THEN r
    ELSE Caught(HwOffIfSet(r, w, "rpmh", bad))

\* BTS7960Motor.stop
MotorStop(r, w, bad) ==
    IF r.exc THEN r
    ELSE IF ~Cur(r).m[w].initialized THEN r
    ELSE LET r1 == HwOffIfSet(r, w, "rpmh", bad)
             r2 == HwOffIfSet(r1, w, "lpmh", bad)
         IN  Caught(r2)

\* a forward without the try/except around its writes
MotorForwardRaises(r, w, speed, bad) ==
    IF r.exc THEN r
    ELSE IF ~Cur(r).m[w].initialized THEN r
    ELSE HwWrite(HwWrite(r, w, "lpmh", Zero, bad), w, "rpmh",
                 RMin(speed, DutyCap), bad)

\* a forward that sets the forward duty before it turns the reverse channel
\* off
MotorForwardLate(r, w, speed, bad) ==
    IF r.exc THEN r
    ELSE IF ~Cur(r).m[w].initialized THEN r
    ELSE LET r1 == HwWrite(r, w, "rpmh", RMin(speed, DutyCap), bad)
             r2 == HwWrite(r1, w, "lpmh", Zero, bad)
         IN  Caught(r2)

\* a forward that writes the requested speed as it is
MotorForwardUncapped(r, w, speed, bad) ==
    IF r.exc THEN r
    ELSE IF ~Cur(r).m[w].initialized THEN r
    ELSE LET r1 == HwWrite(r, w, "lpmh", Zero, bad)
             r2 == HwWrite(r1, w, "rpmh", speed, bad)
         IN  Caught(r2)

\* BTS7960Motor.forward
MotorForward(r, w, speed, bad) ==
    IF r.exc THEN r
    ELSE IF ~Cur(r).m[w].initialized THEN r
    ELSE LET r1 == HwWrite(r, w, "lpmh", Zero, bad)
             capped_speed == RMin(speed, DutyCap)
             r2 == HwWrite(r1, w, "rpmh", capped_speed, bad)
         IN  Caught(r2)

\* a backward without the test of the initialized flag
MotorBackwardUnguarded(r, w, speed, bad) ==
    IF r.exc THEN r
    ELSE LET r1 == HwWrite(r, w, "rpmh", Zero, bad)
             r2 == HwWrite(r1, w, "lpmh", RMin(speed, DutyCap), bad)
         IN  Caught(r2)

\* BTS7960Motor.backward
MotorBackward(r, w, speed, bad) ==
    IF r.exc THEN r
    ELSE IF ~Cur(r).m[w].initialized THEN r
    ELSE LET r1 == HwWrite(r, w, "rpmh", Zero, bad)
             capped_speed == RMin(speed, DutyCap)
             r2 == HwWrite(r1, w, "lpmh", capped_speed, bad)
         IN  Caught(r2)

\* a cleanup that closes the lines without stopping the motor first
MotorCleanupNoStop(r, w, bad) ==
    IF r.exc THEN r
    ELSE LET r2 == HwCloseIfSet(r, w, "r_en", bad)
             r3 == HwCloseIfSet(r2, w, "l_en", bad)
             r4 == HwCloseIfSet(r3, w, "rpmh", bad)
             r5 == HwCloseIfSet(r4, w, "lpmh", bad)
             r6 == SetInitialized(r5, w, FALSE)
         IN  Caught(r6)

\* BTS7960Motor.cleanup
MotorCleanup(r, w, bad) ==
    IF r.exc THEN r
    ELSE LET r1 == MotorStop(r, w, bad)
             r2 == HwCloseIfSet(r1, w, "r_en", bad)
             r3 == HwCloseIfSet(r2, w, "l_en", bad)
             r4 == HwCloseIfSet(r3, w, "rpmh", bad)
             r5 == HwCloseIfSet(r4, w, "lpmh", bad)
             r6 == SetInitialized(r5, w, FALSE)
         IN  Caught(r6)

\* an except clause that re-raises without the cleanup
MotorInitNoCleanup(r, w, bad) == r

\* BTS7960Motor.__init__, the except clause: cleanup, then re-raise
MotorInitExcept(r, w, bad) ==
    IF r.exc THEN Raise(MotorCleanup(Caught(r), w, bad)) ELSE r

\* BTS7960Motor.__init__
MotorInit(r, w, bad) ==
    IF r.exc THEN r
    ELSE LET rn == Push(r, [Cur(r) EXCEPT !.m[w] = FreshMotor])
             r1 == HwAcquire(rn, w, "rpmh", bad)
             r2 == HwAcquire(r1, w, "lpmh", bad)
             r3 == HwAcquire(r2, w, "r_en", bad)
             r4 == HwAcquire(r3, w, "l_en", bad)
             r5 == HwWrite(r4, w, "r_en", One, bad)
             r6 == HwWrite(r5, w, "l_en", One, bad)
             r7 == SetInitialized(r6, w, TRUE)
         IN  MotorInitExcept(r7, w, bad)

InDict(r, name) == InSeq(name, Cur(r).motors)

\* self.motors[name].forward(speed): KeyError when name is no key
DictForward(r, name, speed, bad) ==
    IF r.exc THEN r
    ELSE IF ~InDict(r, name) THEN Raise(r)
    ELSE MotorForward(r, name, speed, bad)

DictBackward(r, name, speed, bad) ==
    IF r.exc THEN r
    ELSE IF ~InDict(r, name) THEN Raise(r)
    ELSE MotorBackward(r, name, speed, bad)

\* "for motor in self.motors.values(): motor.stop()", from the k-th key on
RECURSIVE StopValuesFrom(_, _, _)
StopValuesFrom(r, k, bad) ==
    IF r.exc \/ k > Len(Cur(r).motors) THEN r
    ELSE StopValuesFrom(MotorStop(r, Cur(r).motors[k], bad), k + 1, bad)

\* Drive.stop_all, the body of the loop for one key
StopAllOne(r, motor_name, bad) ==
    IF r.exc THEN r
    ELSE IF InSeq(motor_name, Cur(r).initialized_motors)
    THEN Caught(MotorStop(r, motor_name, bad))
    ELSE r

\* Drive.stop_all, from the k-th key on
RECURSIVE StopAllFrom(_, _, _)
StopAllFrom(r, k, bad) ==
    IF r.exc \/ k > Len(Cur(r).motors) THEN r
    ELSE StopAllFrom(StopAllOne(r, Cur(r).motors[k], bad), k + 1, bad)

\* a stop_all that returns after the first key
StopAllFirstKey(r, bad) ==
    IF r.exc \/ Len(Cur(r).motors) = 0 THEN r
    ELSE StopAllOne(r, Cur(r).motors[1], bad)

\* Drive.stop_all
StopAll(r, bad) == StopAllFrom(r, 1, bad)

\* Drive.cleanup, the body of the loop for one key
CleanupOne(r, motor_name, bad) ==
    IF r.exc THEN r
    ELSE IF InSeq(motor_name, Cur(r).initialized_motors)
    THEN Caught(MotorCleanup(r, motor_name, bad))
    ELSE r

\* the loop of Drive.cleanup, from the k-th key on
RECURSIVE CleanupFrom(_, _, _)
CleanupFrom(r, k, bad) ==
    IF r.exc \/ k > Len(Cur(r).motors) THEN r
    ELSE CleanupFrom(CleanupOne(r, Cur(r).motors[k], bad), k + 1, bad)

\* Drive.cleanup, lines 249-254: Device.pin_factory.reset()
FactoryReset(r) ==
    IF r.exc THEN r ELSE Caught(Push(r, [Cur(r) EXCEPT !.reset = TRUE]))

\* Drive.cleanup: every initialized motor, then the pin factory reset
DriveCleanup(r, bad) ==
    IF r.exc THEN r ELSE FactoryReset(CleanupFrom(r, 1, bad))

\* Drive.__init__: self.motors[name] = motor; initialized_motors.append(name)
Register(r, w) ==
    IF r.exc THEN r
    ELSE Push(r, [Cur(r) EXCEPT !.motors = Append(@, w),
                                !.initialized_motors = Append(@, w)])

\* the body of the try of Drive.__init__, from the k-th wheel on
RECURSIVE DriveInitFrom(_, _, _)
DriveInitFrom(r, k, bad) ==
    IF r.exc \/ k > Len(WheelOrder) THEN r
    ELSE DriveInitFrom(
             Register(MotorInit(r, WheelOrder[k], bad), WheelOrder[k]),
             k + 1, bad)

\* an except clause that re-raises without the cleanup
DriveInitNoCleanup(r, bad) == r

\* Drive.__init__, the except clause: cleanup, then re-raise
DriveInitExcept(r, bad) ==
    IF r.exc THEN Raise(DriveCleanup(Caught(r), bad)) ELSE r

\* Drive.__init__
DriveInit(r, bad) ==
    IF r.exc THEN r ELSE DriveInitExcept(DriveInitFrom(r, 1, bad), bad)

\* a drive_wheel that never stops the motor
StopIfTimedNever(r, w, duration, bad) == r

\* "if duration is not None: time.sleep(duration); motor.stop()"
StopIfTimed(r, w, duration, bad) ==
    IF duration # "None" THEN MotorStop(r, w, bad) ELSE r

\* a drive_wheel without its two membership tests
DriveWheelUnguarded(r, wheel_name, speed, duration, bad) ==
    StopIfTimed(DictForward(r, wheel_name, speed, bad), wheel_name, duration, bad)

\* Drive.drive_wheel; duration is "None" or "finite"
DriveWheel(r, wheel_name, speed, duration, bad) ==
    IF r.exc THEN r
    ELSE IF ~InDict(r, wheel_name) THEN r
    ELSE IF ~InSeq(wheel_name, Cur(r).initialized_motors) THEN r
    ELSE LET r1 == MotorForward(r, wheel_name, speed, bad)
             r2 == StopIfTimed(r1, wheel_name, duration, bad)
         IN  Caught(r2)

\* Drive.front_drive: both motors are looked up before either is driven
FrontDrive(r, left_speed, right_speed, duration, bad) ==
    IF r.exc THEN r
    ELSE IF ~InDict(r, "front_left") \/ ~InDict(r, "front_right") THEN Raise(r)
    ELSE LET r1 == MotorForward(r, "front_left", left_speed, bad)
             r2 == MotorForward(r1, "front_right", right_speed, bad)
             r3 == StopIfTimed(r2, "front_left", duration, bad)
         IN  StopIfTimed(r3, "front_right", duration, bad)

\* Drive.back_drive
BackDrive(r, left_speed, right_speed, duration, bad) ==
    IF r.exc THEN r
    ELSE IF ~InDict(r, "rear_left") \/ ~InDict(r, "rear_right") THEN Raise(r)
    ELSE LET r1 == MotorForward(r, "rear_left", left_speed, bad)
             r2 == MotorForward(r1, "rear_right", right_speed, bad)
             r3 == StopIfTimed(r2, "rear_left", duration, bad)
         IN  StopIfTimed(r3, "rear_right", duration, bad)

\* "if duration is not None: ... for motor in self.motors.values(): stop"
StopValuesIfTimed(r, duration, bad) ==
    IF duration # "None" THEN StopValuesFrom(r, 1, bad) ELSE r

\* Drive.all_drive
AllDrive(r, front_left_speed, front_right_speed, rear_left_speed, rear_right_speed, duration, bad) ==
    LET r1 == DictForward(r, "front_left", front_left_speed, bad)
        r2 == DictForward(r1, "front_right", front_right_speed, bad)
        r3 == DictForward(r2, "rear_left", rear_left_speed, bad)
        r4 == DictForward(r3, "rear_right", rear_right_speed, bad)
    IN  StopValuesIfTimed(r4, duration, bad)

\* an all_drive_backward that drives the rear wheels forward
AllDriveBackwardFrontOnly(r, front_left_speed, front_right_speed, rear_left_speed, rear_right_speed, duration, bad) ==
    LET r1 == DictBackward(r, "front_left", front_left_speed, bad)
        r2 == DictBackward(r1, "front_right", front_right_speed, bad)
        r3 == DictForward(r2, "rear_left", rear_left_speed, bad)
        r4 == DictForward(r3, "rear_right", rear_right_speed, bad)
    IN  StopValuesIfTimed(r4, duration, bad)

\* Drive.all_drive_backward
AllDriveBackward(r, front_left_speed, front_right_speed, rear_left_speed, rear_right_speed, duration, bad) ==
    LET r1 == DictBackward(r, "front_left", front_left_speed, bad)
        r2 == DictBackward(r1, "front_right", front_right_speed, bad)
        r3 == DictBackward(r2, "rear_left", rear_left_speed, bad)
        r4 == DictBackward(r3, "rear_right", rear_right_speed, bad)
    IN  StopValuesIfTimed(r4, duration, bad)

---------------------------------------------------------------------------
(* The control law of main.py *)

POSITION_COEFFICIENT == Rat(1, 2)
SENSITIVITY_THRESHOLD == Rat(5, 100)
HUMAN_AREA_TARGET == Rat(333, 1000)

\* "not box_coords": None and the empty tuple are both false
NoBox == <<>>

\* calculate_area_deviation; human_area is an integer, target_area a rational
calculate_area_deviation(human_area, target_area) ==
    IF human_area = 0 \/ target_area = Zero THEN Zero
    ELSE RDiv(RSub(Rat(human_area, 1), target_area), target_area)

\* a filter that also suppresses a value at the threshold
apply_threshold_inclusive(value, threshold) ==
    IF RLt(threshold, RAbs(value)) THEN value ELSE Zero

\* a filter that passes the magnitude and drops the sign
apply_threshold_magnitude(value, threshold) ==
    IF RLt(RAbs(value), threshold) THEN Zero ELSE RAbs(value)

\* calculate_position_deviation, in pixels; // is the floor division
calculate_position_deviation(box_coords, frame_width) ==
    IF box_coords = NoBox THEN 0
    ELSE LET human_center_x == (box_coords[1] + box_coords[3]) \div 2
             frame_center_x == frame_width \div 2
         IN  human_center_x - frame_center_x

apply_threshold(value, threshold) ==
    IF RLt(RAbs(value), threshold) THEN Zero ELSE value

\* the position deviation of get_deviations before the threshold
pos_dev_scaled(box_coords, frame_width) ==
    RDiv(Rat(calculate_position_deviation(box_coords, frame_width), 1),
         RMul(Rat(frame_width, 1), POSITION_COEFFICIENT))

get_deviations(box_coords, human_area, target_area, frame_width) ==
    IF box_coords = NoBox THEN [x |-> Zero, y |-> Zero]
    ELSE [x |-> apply_threshold(
                    calculate_area_deviation(human_area, target_area),
                    SENSITIVITY_THRESHOLD),
          y |-> apply_threshold(pos_dev_scaled(box_coords, frame_width),
                                SENSITIVITY_THRESHOLD)]

get_human_area(box_coords) ==
    IF box_coords # NoBox
    THEN (box_coords[3] - box_coords[1]) * (box_coords[4] - box_coords[2])
    ELSE 0

\* side speeds from a base speed of 1
WheelSpeedsFullBase(deviations) ==
    LET movement_speed == RAbs(deviations.x)
        slow == RMax(Zero, RMin(One, RMul(movement_speed, Rat(1, 2))))
        fast == RMax(Zero, RMin(One, movement_speed))
    IN  [left_speed |-> IF RLt(deviations.y, Zero) THEN slow ELSE fast,
         right_speed |-> IF RLt(Zero, deviations.y) THEN slow ELSE fast]

\* side speeds with the slow side on the left when the person is to the right
WheelSpeedsMirrored(deviations) ==
    LET movement_speed == RMul(Rat(1, 2), RAbs(deviations.x))
        slow == RMax(Zero, RMin(One, RMul(movement_speed, Rat(1, 2))))
        fast == RMax(Zero, RMin(One, movement_speed))
    IN  [left_speed |-> IF RLt(Zero, deviations.y) THEN slow ELSE fast,
         right_speed |-> IF RLt(deviations.y, Zero) THEN slow ELSE fast]

\* control_all_wheels, lines 88-106: the two side speeds
WheelSpeeds(deviations) ==
    LET base_speed == Rat(1, 2)
        movement_speed == RMul(base_speed, RAbs(deviations.x))
        left_raw == IF RLt(Zero, deviations.y) THEN movement_speed
                    ELSE IF RLt(deviations.y, Zero)
                    THEN RMul(movement_speed, Rat(1, 2))
                    ELSE movement_speed
        right_raw == IF RLt(Zero, deviations.y)
                     THEN RMul(movement_speed, Rat(1, 2))
                     ELSE IF RLt(deviations.y, Zero) THEN movement_speed
                     ELSE movement_speed
    IN  [left_speed |-> RMax(Zero, RMin(One, left_raw)),
         right_speed |-> RMax(Zero, RMin(One, right_raw))]

\* a direction choice that makes no call for the zero signal
ControlCallNoStop(deviations) ==
    IF RLt(deviations.x, Zero) THEN "all_drive"
    ELSE IF RLt(Zero, deviations.x) THEN "all_drive_backward"
    ELSE "none"

\* a direction choice with the two signs exchanged
ControlCallSwapped(deviations) ==
    IF deviations.x = Zero /\ deviations.y = Zero THEN "stop_all"
    ELSE IF RLt(deviations.x, Zero) THEN "all_drive_backward"
    ELSE IF RLt(Zero, deviations.x) THEN "all_drive"
    ELSE "none"

\* control_all_wheels: the coordinator call it makes, "none" when it makes
\* no call
ControlCall(deviations) ==
    IF deviations.x = Zero /\ deviations.y = Zero THEN "stop_all"
    ELSE IF RLt(deviations.x, Zero) THEN "all_drive"
    ELSE IF RLt(Zero, deviations.x) THEN "all_drive_backward"
    ELSE "none"

\* a control_all_wheels that gives the rear wheels the speed of the other side
control_all_wheels_crossed(r, deviations, bad) ==
    LET s == WheelSpeeds(deviations)
        c == ControlCall(deviations)
    IN  IF c = "stop_all" THEN StopAll(r, bad)
        ELSE IF c = "all_drive"
        THEN AllDrive(r, s.left_speed, s.right_speed, s.right_speed,
                      s.left_speed, "None", bad)
        ELSE IF c = "all_drive_backward"
        THEN AllDriveBackward(r, s.left_speed, s.right_speed, s.right_speed,
                              s.left_speed, "None", bad)
        ELSE r

\* control_all_wheels
control_all_wheels(r, deviations, bad) ==
    LET s == WheelSpeeds(deviations)
        c == ControlCall(deviations)
    IN  IF c = "stop_all" THEN StopAll(r, bad)
        ELSE IF c = "all_drive"
        THEN AllDrive(r, s.left_speed, s.right_speed, s.left_speed,
                      s.right_speed, "None", bad)
        ELSE IF c = "all_drive_backward"
        THEN AllDriveBackward(r, s.left_speed, s.right_speed, s.left_speed,
                              s.right_speed, "None", bad)
        ELSE r

---------------------------------------------------------------------------
(* Inputs *)

\* requested speeds
Speeds == {Rat(k, SpeedSteps) : k \in 0..SpeedSteps}
Durations == {"None", "finite"}

\* the pins that fail to be acquired during one construction of Drive
AcqFaults ==
    {[acq |-> S, wr |-> {}, cl |-> {}] :
        S \in {T \in SUBSET Pins : Cardinality(T) <= MaxFaults}}

\* the subsets of S of at most k elements
RECURSIVE UpTo(_, _)
UpTo(S, k) ==
    IF k = 0 THEN {{}}
    ELSE {T \cup U : T \in UpTo(S, k - 1), U \in {{}} \cup {{x} : x \in S}}

\* the lines whose write or close fails during one call on a built Drive:
\* at most MaxFaults lines of the wheels in hwfaults
RunFaults ==
    {[acq |-> {},
      wr |-> {f[2] : f \in {g \in F : g[1] = "wr"}},
      cl |-> {f[2] : f \in {g \in F : g[1] = "cl"}}] :
        F \in UpTo(({"wr"} \X (hwfaults \X PwmLines)) \cup
                   ({"cl"} \X (hwfaults \X Lines)), MaxFaults)}

\* frames delivered by the camera (width, height)
Frames == {[w |-> 200, h |-> 100]}

\* bounding boxes (x_min, y_min, x_max, y_max) of the perception collaborator:
\* centred, at both dead-zone boundaries of the position deviation, inside
\* the dead zone, far right, far left, degenerate at the right edge, wide
XIntervals ==
    {<<45, 156>>, <<50, 161>>, <<40, 151>>, <<47, 158>>, <<88, 199>>,
     <<0, 111>>, <<199, 199>>, <<10, 190>>}
\* heights giving, with width 111, an area deviation of 0, +0.05, -0.05,
\* inside the dead zone, -0.5, and large; with width 180, twice the target
YIntervals ==
    {<<0, 60>>, <<0, 63>>, <<0, 57>>, <<0, 61>>, <<0, 30>>, <<0, 74>>,
     <<0, 99>>}
Boxes == {<<x[1], y[1], x[2], y[2]>> : x \in XIntervals, y \in YIntervals}

\* the boxes of the control calls an API client makes: no person, too close
\* and centred, too far and centred, at the target distance and to the right
ControlBoxes ==
    {NoBox, <<10, 0, 190, 74>>, <<45, 0, 156, 30>>, <<88, 0, 199, 60>>}

NoTarget == <<>>
NoSpeed == <<>>

NoTick ==
    [present |-> FALSE, box |-> NoBox, frame_width |-> 0, frame_height |-> 0,
     area_dev |-> Zero, pos_dev |-> Zero, x |-> Zero, y |-> Zero,
     left_speed |-> NoSpeed, right_speed |-> NoSpeed, issued |-> "none"]

NoCall ==
    [op |-> "none", bad |-> NoBad, wheel |-> "", speed |-> Zero,
     duration |-> "None", exc |-> FALSE, n |-> 0]

\* the record of a call: what was called, the device accesses that fail
\* during it, the number of steps of its run and whether it raises
CallOf(op, bad, wheel, speed, duration, run) ==
    [op |-> op, bad |-> bad, wheel |-> wheel, speed |-> speed,
     duration |-> duration, exc |-> run.exc, n |-> Len(run.tr) - 1]

\* the resolutions of a camera whose frame size changes during the session
FrameSizes == {[w |-> 200, h |-> 100], [w |-> 400, h |-> 200]}

---------------------------------------------------------------------------
(* The program main() of main.py *)

Init ==
    /\ drive = FreshDrive
    /\ pending = <<>>
    /\ pc = "start"
    /\ call = NoCall
    /\ tick = NoTick
    /\ log = <<>>
    /\ target_human_area = NoTarget
    /\ exit = "none"
    /\ hwfaults = {}

\* one hardware access, or one assignment to an object field, of the call
\* in progress
Step ==
    /\ pending # <<>>
    /\ drive' = Head(pending)
    /\ pending' = Tail(pending)
    /\ UNCHANGED <<pc, call, tick, log, target_human_area, exit, hwfaults>>

\* main.py:162, drive = Drive(), outside the try
Construct ==
    /\ pc = "start"
    /\ pending = <<>>
    /\ \E bad \in AcqFaults :
         LET run == DriveInit(Start(drive), bad)
         IN  /\ pending' = Tail(run.tr)
             /\ pc' = IF run.exc THEN "init_failed" ELSE "loop"
             /\ call' = CallOf("Drive", bad, "", Zero, "None", run)
    /\ UNCHANGED <<drive, tick, log, target_human_area, exit, hwfaults>>

\* a target recomputed from every frame
TargetAreaEveryFrame(frame) ==
    RMul(Rat(frame.w * frame.h, 1), HUMAN_AREA_TARGET)

\* main.py:174-175: the target area, set from the frame when it is None
TargetArea(frame) ==
    IF target_human_area = NoTarget
    THEN RMul(Rat(frame.w * frame.h, 1), HUMAN_AREA_TARGET)
    ELSE target_human_area

\* the body of the while loop, main.py:174-202, on a frame of one of the
\* sizes in frames that was read, with a box of boxes or none
TickOn(frames, boxes) ==
    /\ \E frame \in frames, human_detected \in BOOLEAN, box \in boxes \cup {NoBox},
          bad \in RunFaults :
         /\ ~human_detected => box = NoBox
         /\ LET target == TargetArea(frame)
                human_area == get_human_area(box)
                deviations == get_deviations(box, human_area, target, frame.w)
                run == IF human_detected
                       THEN control_all_wheels(Start(drive), deviations, bad)
                       ELSE StopAll(Start(drive), bad)
                issued == IF human_detected THEN ControlCall(deviations)
                          ELSE "stop_all"
                computed == human_detected /\ issued # "stop_all"
            IN  /\ target_human_area' = target
                /\ pending' = Tail(run.tr)
                /\ call' = CallOf(issued, bad, "", Zero, "None", run)
                /\ pc' = IF run.exc THEN "finally" ELSE "loop"
                /\ exit' = IF run.exc THEN "exception" ELSE exit
                /\ tick' =
                     [present |-> human_detected, box |-> box,
                      frame_width |-> frame.w, frame_height |-> frame.h,
                      area_dev |-> IF human_detected /\ box # NoBox
                                   THEN calculate_area_deviation(human_area, target)
                                   ELSE Zero,
                      pos_dev |-> IF human_detected /\ box # NoBox
                                  THEN pos_dev_scaled(box, frame.w)
                                  ELSE Zero,
                      x |-> IF human_detected THEN deviations.x ELSE Zero,
                      y |-> IF human_detected THEN deviations.y ELSE Zero,
                      left_speed |-> IF computed
                                     THEN WheelSpeeds(deviations).left_speed
                                     ELSE NoSpeed,
                      right_speed |-> IF computed
                                      THEN WheelSpeeds(deviations).right_speed
                                      ELSE NoSpeed,
                      issued |-> issued]
    /\ UNCHANGED <<drive, log, hwfaults>>

\* one iteration of the loop on a camera of a fixed resolution
Tick ==
    /\ pc = "loop"
    /\ pending = <<>>
    /\ TickOn(Frames, Boxes)

\* main.py:168-170, camera.read() returns ret = False
ReadFail ==
    /\ pc = "loop"
    /\ pending = <<>>
    /\ pc' = "finally"
    /\ exit' = "read_failed"
    /\ UNCHANGED <<drive, pending, call, tick, log, target_human_area, hwfaults>>

\* main.py:208-209, 'q' pressed at the end of an iteration
Quit ==
    /\ pc = "loop"
    /\ pending = <<>>
    /\ tick # NoTick
    /\ pc' = "finally"
    /\ exit' = "quit"
    /\ UNCHANGED <<drive, pending, call, tick, log, target_human_area, hwfaults>>

\* KeyboardInterrupt, or an exception of the camera or of the perception
\* code, anywhere in the loop body: also between two hardware writes of the
\* coordinator call in progress
Interrupt ==
    /\ pc = "loop"
    /\ ~(call.op = "Drive" /\ pending # <<>>)
    /\ pending' = <<>>
    /\ pc' = "finally"
    /\ exit' = "exception"
    /\ UNCHANGED <<drive, call, tick, log, target_human_area, hwfaults>>

\* main.py:213
FinallyStopAll ==
    /\ pc = "finally"
    /\ pending = <<>>
    /\ \E bad \in RunFaults :
         LET run == StopAll(Start(drive), bad)
         IN  /\ pending' = Tail(run.tr)
             /\ call' = CallOf("stop_all", bad, "", Zero, "None", run)
             /\ pc' = IF run.exc THEN "release" ELSE "finally_cleanup"
    /\ log' = Append(log, "stop_all")
    /\ UNCHANGED <<drive, tick, target_human_area, exit, hwfaults>>

\* main.py:214
FinallyCleanup ==
    /\ pc = "finally_cleanup"
    /\ pending = <<>>
    /\ \E bad \in RunFaults :
         LET run == DriveCleanup(Start(drive), bad)
         IN  /\ pending' = Tail(run.tr)
             /\ call' = CallOf("cleanup", bad, "", Zero, "None", run)
    /\ pc' = "release"
    /\ log' = Append(log, "cleanup")
    /\ UNCHANGED <<drive, tick, target_human_area, exit, hwfaults>>

\* main.py:215-217: main() returns, or the exception propagates
Return ==
    /\ pc = "release"
    /\ pending = <<>>
    /\ pc' = "returned"
    /\ UNCHANGED <<drive, pending, call, tick, log, target_human_area, exit,
                   hwfaults>>

Next ==
    \/ Construct
    \/ Tick
    \/ ReadFail
    \/ Quit
    \/ Interrupt
    \/ Step
    \/ FinallyStopAll
    \/ FinallyCleanup
    \/ Return

Spec == Init /\ [][Next]_vars

---------------------------------------------------------------------------
(* main() from the first iteration of its loop, on a camera whose frames
   change size *)

InitResize ==
    /\ drive = Cur(DriveInit(Start(FreshDrive), NoBad))
    /\ pending = <<>>
    /\ pc = "loop"
    /\ call = NoCall
    /\ tick = NoTick
    /\ log = <<>>
    /\ target_human_area = NoTarget
    /\ exit = "none"
    /\ hwfaults = {}

\* one iteration of the loop on a frame of either size
TickResized ==
    /\ pc = "loop"
    /\ pending = <<>>
    /\ TickOn(FrameSizes, ControlBoxes)

NextResize ==
    \/ TickResized
    \/ ReadFail
    \/ Quit
    \/ Step
    \/ FinallyStopAll
    \/ FinallyCleanup
    \/ Return

ResizeSpec == InitResize /\ [][NextResize]_vars

---------------------------------------------------------------------------
(* A client of drive.py: any sequence of calls on a constructed Drive and  *)
(* on its motors (drive.motors[name]), as the __main__ block of drive.py   *)
(* and the tracking loop make them                                         *)

\* the Drive object after a construction in which every pin was acquired
BuiltDrive == Cur(DriveInit(Start(FreshDrive), NoBad))

\* wheel names a client may pass: the four keys and one unknown name
WheelNames == Wheels \cup {"middle"}

InitApi ==
    /\ drive = BuiltDrive
    /\ pending = <<>>
    /\ pc = "api"
    /\ call = NoCall
    /\ tick = NoTick
    /\ log = <<>>
    /\ target_human_area = NoTarget
    /\ exit = "none"
    /\ hwfaults = {}

\* a call is issued: its run is what the following Steps pass through
Issue(op, bad, wheel, speed, duration, run) ==
    /\ pending' = Tail(run.tr)
    /\ call' = CallOf(op, bad, wheel, speed, duration, run)
    /\ UNCHANGED <<drive, pc, tick, log, target_human_area, exit, hwfaults>>

\* the client is between two calls
Idle == pc = "api" /\ pending = <<>> /\ call = NoCall

\* the call in progress has made its last step and returns to the client
ApiReturn ==
    /\ pc = "api"
    /\ pending = <<>>
    /\ call # NoCall
    /\ call' = NoCall
    /\ UNCHANGED <<drive, pending, pc, tick, log, target_human_area, exit,
                   hwfaults>>

ApiForward ==
    /\ Idle
    /\ \E w \in Wheels, speed \in Speeds, bad \in RunFaults :
         Issue("forward", bad, w, speed, "None",
               MotorForward(Start(drive), w, speed, bad))

ApiBackward ==
    /\ Idle
    /\ \E w \in Wheels, speed \in Speeds, bad \in RunFaults :
         Issue("backward", bad, w, speed, "None",
               MotorBackward(Start(drive), w, speed, bad))

ApiStop ==
    /\ Idle
    /\ \E w \in Wheels, bad \in RunFaults :
         Issue("stop", bad, w, Zero, "None", MotorStop(Start(drive), w, bad))

ApiMotorCleanup ==
    /\ Idle
    /\ \E w \in Wheels, bad \in RunFaults :
         Issue("motor_cleanup", bad, w, Zero, "None",
               MotorCleanup(Start(drive), w, bad))

ApiDriveWheel ==
    /\ Idle
    /\ \E name \in WheelNames, speed \in Speeds, duration \in Durations,
          bad \in RunFaults :
         Issue("drive_wheel", bad, name, speed, duration,
               DriveWheel(Start(drive), name, speed, duration, bad))

ApiFrontDrive ==
    /\ Idle
    /\ \E ls \in Speeds, rs \in Speeds, duration \in Durations,
          bad \in RunFaults :
         Issue("front_drive", bad, "", Zero, duration,
               FrontDrive(Start(drive), ls, rs, duration, bad))

ApiBackDrive ==
    /\ Idle
    /\ \E ls \in Speeds, rs \in Speeds, duration \in Durations,
          bad \in RunFaults :
         Issue("back_drive", bad, "", Zero, duration,
               BackDrive(Start(drive), ls, rs, duration, bad))

\* the four speeds of a whole-chassis call: mirrored front/rear as the
\* tracking loop passes them, or crossed
ApiAllDrive ==
    /\ Idle
    /\ \E a \in Speeds, b \in Speeds, crossed \in BOOLEAN,
          duration \in Durations, bad \in RunFaults :
         Issue("all_drive", bad, "", Zero, duration,
               AllDrive(Start(drive), a, b, IF crossed THEN b ELSE a,
                        IF crossed THEN a ELSE b, duration, bad))

ApiAllDriveBackward ==
    /\ Idle
    /\ \E a \in Speeds, b \in Speeds, crossed \in BOOLEAN,
          duration \in Durations, bad \in RunFaults :
         Issue("all_drive_backward", bad, "", Zero, duration,
               AllDriveBackward(Start(drive), a, b, IF crossed THEN b ELSE a,
                                IF crossed THEN a ELSE b, duration, bad))

\* control_all_wheels(drive, deviations) as the tracking loop calls it, for
\* the deviations of a box in a frame
ApiControl ==
    /\ Idle
    /\ \E frame \in Frames, box \in ControlBoxes, bad \in RunFaults :
         Issue("control_all_wheels", bad, "", Zero, "None",
               control_all_wheels(
                   Start(drive),
                   get_deviations(box, get_human_area(box),
                                  RMul(Rat(frame.w * frame.h, 1), HUMAN_AREA_TARGET),
                                  frame.w),
                   bad))

ApiStopAll ==
    /\ Idle
    /\ \E bad \in RunFaults :
         Issue("stop_all", bad, "", Zero, "None", StopAll(Start(drive), bad))

ApiCleanup ==
    /\ Idle
    /\ \E bad \in RunFaults :
         Issue("cleanup", bad, "", Zero, "None", DriveCleanup(Start(drive), bad))

NextApi ==
    \/ ApiForward
    \/ ApiBackward
    \/ ApiStop
    \/ ApiMotorCleanup
    \/ ApiDriveWheel
    \/ ApiFrontDrive
    \/ ApiBackDrive
    \/ ApiAllDrive
    \/ ApiAllDriveBackward
    \/ ApiControl
    \/ ApiStopAll
    \/ ApiCleanup
    \/ ApiReturn
    \/ Step

ApiSpec == InitApi /\ [][NextApi]_vars

---------------------------------------------------------------------------
(* The same client on hardware whose writes and closes may fail *)

\* the Drive is built; the hardware of one wheel is unreliable
InitFault ==
    /\ drive = BuiltDrive
    /\ pending = <<>>
    /\ pc = "api"
    /\ call = NoCall
    /\ tick = NoTick
    /\ log = <<>>
    /\ target_human_area = NoTarget
    /\ exit = "none"
    /\ hwfaults \in {{w} : w \in Wheels}

\* calls on the motor of the unreliable wheel
FaultForward ==
    /\ Idle
    /\ \E w \in hwfaults, speed \in Speeds, bad \in RunFaults :
         Issue("forward", bad, w, speed, "None",
               MotorForward(Start(drive), w, speed, bad))

FaultBackward ==
    /\ Idle
    /\ \E w \in hwfaults, speed \in Speeds, bad \in RunFaults :
         Issue("backward", bad, w, speed, "None",
               MotorBackward(Start(drive), w, speed, bad))

FaultStop ==
    /\ Idle
    /\ \E w \in hwfaults, bad \in RunFaults :
         Issue("stop", bad, w, Zero, "None", MotorStop(Start(drive), w, bad))

FaultMotorCleanup ==
    /\ Idle
    /\ \E w \in hwfaults, bad \in RunFaults :
         Issue("motor_cleanup", bad, w, Zero, "None",
               MotorCleanup(Start(drive), w, bad))

\* whole-chassis calls with one speed for the four wheels
FaultAllDrive ==
    /\ Idle
    /\ \E speed \in Speeds, duration \in Durations, bad \in RunFaults :
         Issue("all_drive", bad, "", speed, duration,
               AllDrive(Start(drive), speed, speed, speed, speed, duration, bad))

FaultAllDriveBackward ==
    /\ Idle
    /\ \E speed \in Speeds, duration \in Durations, bad \in RunFaults :
         Issue("all_drive_backward", bad, "", speed, duration,
               AllDriveBackward(Start(drive), speed, speed, speed, speed,
                                duration, bad))

NextFault ==
    \/ FaultForward
    \/ FaultBackward
    \/ FaultStop
    \/ FaultMotorCleanup
    \/ FaultAllDrive
    \/ FaultAllDriveBackward
    \/ ApiStopAll
    \/ ApiCleanup
    \/ ApiReturn
    \/ Step

FaultSpec == InitFault /\ [][NextFault]_vars

---------------------------------------------------------------------------
(* Properties *)

\* the state in which the call in progress ends
Final == IF pending = <<>> THEN drive ELSE pending[Len(pending)]

\* the call in progress has just been issued: drive is the state it starts in
JustIssued == call # NoCall /\ Len(pending) = call.n

Running(d, w, l) == RLt(Zero, d.m[w][l].val)
AllOff(d) == \A w \in Wheels, l \in PwmLines : d.m[w][l].val = Zero
AllOpen(d) == \A w \in Wheels, l \in Lines : d.m[w][l].st = "open"
AllClosed(d) == \A w \in Wheels, l \in Lines : d.m[w][l].st = "closed"

\* C1: on every way out of the tracking loop (the camera read fails, 'q' is
\* pressed, an exception or KeyboardInterrupt arrives in the loop body),
\* main() calls stop_all and then cleanup, in that order, before it returns:
\* when stop_all is done every PWM duty is 0 and nothing is released yet, and
\* when main() returns every duty is 0 and every line is released.
C1_StopThenRelease ==
    /\ exit # "none" => pc \in {"finally", "finally_cleanup", "release", "returned"}
    /\ pc = "finally" => log = <<>>
    /\ pc = "finally_cleanup" =>
         /\ log = <<"stop_all">>
         /\ pending = <<>> => AllOff(drive) /\ AllOpen(drive)
    /\ pc \in {"release", "returned"} => log = <<"stop_all", "cleanup">>
    /\ pc = "returned" =>
         /\ exit \in {"read_failed", "quit", "exception"}
         /\ AllOff(drive) /\ AllClosed(drive) /\ drive.reset

\* main() has returned after an exception in a tick that drove the wheels
C1_Witness ==
    /\ pc = "returned"
    /\ exit = "exception"
    /\ tick.issued = "all_drive_backward"
    /\ tick.left_speed = DutyCap
    /\ AllOff(drive)

\* C2: in every state the driver passes through, also between the two
\* writes of a forward or backward call, no motor has a nonzero duty on both
\* of its PWM channels: the channel that was active is 0 before the other
\* becomes nonzero.
C2_NeverBothChannels ==
    \A w \in Wheels : ~(Running(drive, w, "rpmh") /\ Running(drive, w, "lpmh"))

\* forward is called on a wheel that runs backward: the run passes through
\* both channels at 0 and ends with the forward channel alone nonzero
C2_Witness ==
    \E w \in Wheels :
        /\ call.op = "forward" /\ call.wheel = w /\ JustIssued
        /\ Running(drive, w, "lpmh")
        /\ Len(pending) = 2
        /\ ~Running(pending[1], w, "lpmh") /\ ~Running(pending[1], w, "rpmh")
        /\ ~Running(pending[2], w, "lpmh") /\ Running(pending[2], w, "rpmh")

\* C3: forward(s) on an initialized motor leaves the forward channel at
\* exactly min(s, 0.5), backward(s) the reverse channel at exactly
\* min(s, 0.5), and in no state reached by calls on the motors, on the
\* coordinator and by control_all_wheels is any channel duty above 0.5.
C3_DutyCapped ==
    /\ \A w \in Wheels, l \in PwmLines : ~RLt(Rat(1, 2), drive.m[w][l].val)
    /\ \A w \in Wheels :
         (call.wheel = w /\ pending = <<>> /\ drive.m[w].initialized) =>
             /\ call.op = "forward" =>
                  drive.m[w].rpmh.val =
                      (IF RLt(call.speed, Rat(1, 2)) THEN call.speed ELSE Rat(1, 2))
             /\ call.op = "backward" =>
                  drive.m[w].lpmh.val =
                      (IF RLt(call.speed, Rat(1, 2)) THEN call.speed ELSE Rat(1, 2))

\* forward(1) has returned with the forward channel at 0.5
C3_Witness ==
    \E w \in Wheels :
        /\ call.op = "forward" /\ call.wheel = w /\ call.speed = One
        /\ pending = <<>>
        /\ drive.m[w].initialized
        /\ drive.m[w].rpmh.val = Rat(1, 2)

\* C4: stop_all, called in any reachable state with working hardware writes,
\* does not raise and ends with both channels of every wheel of
\* initialized_motors at 0; a second stop_all right after it does not raise
\* and passes through that same state only.
C4_StopAllStops ==
    call.op = "stop_all" =>
        /\ ~call.exc
        /\ \A w \in Wheels :
             InSeq(w, Final.initialized_motors) =>
                 Final.m[w].rpmh.val = Zero /\ Final.m[w].lpmh.val = Zero
        /\ pending = <<>> =>
             LET again == StopAll(Start(drive), NoBad)
             IN  /\ ~again.exc
                 /\ \A i \in 1..Len(again.tr) : again.tr[i] = drive

\* stop_all is called while one wheel runs forward, one backward and one is
\* stopped, and its run ends with every channel at 0
C4_Witness ==
    /\ call.op = "stop_all" /\ JustIssued
    /\ Running(drive, "front_left", "rpmh")
    /\ Running(drive, "front_right", "lpmh")
    /\ ~Running(drive, "rear_left", "rpmh") /\ ~Running(drive, "rear_left", "lpmh")
    /\ drive.m["rear_left"].initialized
    /\ Len(pending) = 8
    /\ AllOff(Final)

\* the tick's box has a positive width and height inside the frame
Seen == tick.present /\ tick.box # NoBox

\* calculate_position_deviation of the tick's box, in pixels
PixelDeviation ==
    ((tick.box[1] + tick.box[3]) \div 2) - (tick.frame_width \div 2)

\* C5 (as claimed): on every tick with a person present control_all_wheels
\* issues a whole-chassis command: stop_all for the zero signal, all_drive or
\* all_drive_backward for every other signal, also for area deviation 0 with
\* a nonzero position deviation.
C5_EveryTickCommands ==
    (pc = "loop" /\ tick.present) =>
        IF tick.x = Zero /\ tick.y = Zero
        THEN tick.issued = "stop_all" /\ call.op = "stop_all"
        ELSE /\ tick.issued \in {"all_drive", "all_drive_backward"}
             /\ call.op = tick.issued
             /\ call.duration = "None"

\* C6 (as claimed): a deviation whose magnitude is exactly 0.05 is
\* suppressed, for the area deviation and for the scaled position deviation.
C6_BoundarySuppressed ==
    Seen =>
        /\ RAbs(tick.area_dev) = Rat(1, 20) => tick.x = Zero
        /\ RAbs(tick.pos_dev) = Rat(1, 20) => tick.y = Zero

\* C6 (amended): a deviation whose magnitude is exactly 0.05 passes the
\* dead-zone filter unchanged, for the area deviation and for the scaled
\* position deviation.
C6_BoundaryPasses ==
    Seen =>
        /\ RAbs(tick.area_dev) = Rat(1, 20) =>
             tick.x = tick.area_dev /\ tick.x # Zero
        /\ RAbs(tick.pos_dev) = Rat(1, 20) =>
             tick.y = tick.pos_dev /\ tick.y # Zero

\* a tick whose area deviation is -0.05 and whose position deviation is 0.05
C6_Witness ==
    /\ Seen
    /\ tick.area_dev = Rat(-1, 20) /\ tick.x = Rat(-1, 20)
    /\ tick.pos_dev = Rat(1, 20) /\ tick.y = Rat(1, 20)

\* C7: a deviation of magnitude below 0.05 is filtered to exactly 0 and one
\* of magnitude above 0.05 passes with its sign and magnitude, for the area
\* deviation (human_area - target) / target and for the position deviation,
\* which is the pixel deviation divided by frame_width * 0.5.
C7_DeadZone ==
    Seen =>
        /\ RMul(tick.pos_dev, Rat(tick.frame_width, 2)) = Rat(PixelDeviation, 1)
        /\ get_human_area(tick.box) # 0 =>
             RMul(tick.area_dev, target_human_area) =
                 RSub(Rat(get_human_area(tick.box), 1), target_human_area)
        /\ RLt(RAbs(tick.area_dev), Rat(1, 20)) => tick.x = Zero
        /\ RLt(Rat(1, 20), RAbs(tick.area_dev)) => tick.x = tick.area_dev
        /\ RLt(RAbs(tick.pos_dev), Rat(1, 20)) => tick.y = Zero
        /\ RLt(Rat(1, 20), RAbs(tick.pos_dev)) => tick.y = tick.pos_dev

\* a tick with a small nonzero area deviation, filtered to 0, and a negative
\* position deviation beyond the threshold, passed with its sign
C7_Witness ==
    /\ Seen
    /\ tick.area_dev = Rat(1, 60) /\ tick.x = Zero
    /\ tick.pos_dev = Rat(-9, 20) /\ tick.y = Rat(-9, 20)

\* the duty the driver applies for a side speed
Applied(speed) == IF RLt(speed, Rat(1, 2)) THEN speed ELSE Rat(1, 2)

SideSpeed(w) ==
    IF w \in {"front_left", "rear_left"} THEN tick.left_speed
    ELSE tick.right_speed

\* C8: on a tick whose filtered area deviation is positive the loop issues
\* all_drive_backward and never all_drive: its run energises no forward
\* channel and ends with every wheel in reverse at its side's speed; on a
\* tick whose filtered area deviation is negative it issues all_drive and
\* never all_drive_backward, symmetrically.
C8_DirectionBySign ==
    (pc = "loop" /\ tick.present) =>
        /\ RLt(Zero, tick.x) =>
             /\ tick.issued = "all_drive_backward" /\ call.op = "all_drive_backward"
             /\ \A w \in Wheels :
                  /\ Final.m[w].rpmh.val = Zero
                  /\ Final.m[w].lpmh.val = Applied(SideSpeed(w))
                  /\ \A i \in 1..Len(pending) :
                       pending[i].m[w].rpmh.val \in {Zero, drive.m[w].rpmh.val}
        /\ RLt(tick.x, Zero) =>
             /\ tick.issued = "all_drive" /\ call.op = "all_drive"
             /\ \A w \in Wheels :
                  /\ Final.m[w].lpmh.val = Zero
                  /\ Final.m[w].rpmh.val = Applied(SideSpeed(w))
                  /\ \A i \in 1..Len(pending) :
                       pending[i].m[w].lpmh.val \in {Zero, drive.m[w].lpmh.val}

\* a tick with human_area = 2 * target_area is issued while the wheels run
\* forward, and its run ends with every wheel in reverse
C8_Witness ==
    /\ pc = "loop" /\ tick.present /\ JustIssued
    /\ Rat(get_human_area(tick.box), 1) = RMul(Rat(2, 1), target_human_area)
    /\ tick.x = One
    /\ call.op = "all_drive_backward"
    /\ \A w \in Wheels : Running(drive, w, "rpmh") /\ Running(Final, w, "lpmh")

\* C9 (as claimed): for every box, a box centred on the frame centre gets
\* left_speed = right_speed, and a box with a positive filtered position
\* deviation gets right_speed < left_speed.
C9_RightAlwaysSlower ==
    Seen =>
        /\ PixelDeviation = 0 => tick.left_speed = tick.right_speed
        /\ RLt(Zero, tick.y) => RLt(tick.right_speed, tick.left_speed)

\* C9 (amended): a box centred on the frame centre gets left_speed =
\* right_speed whenever the speeds are computed; a box with a positive
\* filtered position deviation gets right_speed < left_speed when the
\* filtered area deviation is not 0, and left_speed = right_speed = 0 when
\* it is 0.
C9_RightSlowerWhenMoving ==
    Seen =>
        /\ PixelDeviation = 0 => tick.left_speed = tick.right_speed
        /\ (PixelDeviation = 0 /\ tick.x # Zero) =>
             tick.left_speed # NoSpeed
        /\ (RLt(Zero, tick.y) /\ tick.x # Zero) =>
             RLt(tick.right_speed, tick.left_speed)
        /\ (RLt(Zero, tick.y) /\ tick.x = Zero) =>
             tick.left_speed = Zero /\ tick.right_speed = Zero

\* a tick with the person too far and to the right: the right side is slower
C9_Witness ==
    /\ Seen
    /\ RLt(tick.x, Zero) /\ RLt(Zero, tick.y)
    /\ tick.left_speed = Rat(1, 4) /\ tick.right_speed = Rat(1, 8)

\* every line of the wheel is closed at duty 0 and the motor is not
\* initialized
Released(d, w) ==
    /\ \A l \in Lines : d.m[w][l].st = "closed"
    /\ \A l \in PwmLines : d.m[w][l].val = Zero
    /\ ~d.m[w].initialized

\* C10: when the construction of the k-th motor fails in Drive.__init__, the
\* k-1 motors constructed before it are stopped and have their four lines
\* closed, no line of a later motor was ever acquired, and the exception
\* reaches the caller: main() gets no Drive and never enters its loop.
C10_ConstructionFailure ==
    pc = "init_failed" =>
        /\ call.op = "Drive" /\ call.exc
        /\ tick = NoTick /\ log = <<>>
        /\ pending = <<>> =>
             LET k == Len(drive.motors) + 1
             IN  /\ k \in 1..Len(WheelOrder)
                 /\ drive.motors = SubSeq(WheelOrder, 1, k - 1)
                 /\ \E l \in Lines : drive.m[WheelOrder[k]][l].st = "none"
                 /\ \A i \in 1..Len(WheelOrder) :
                      /\ i < k => Released(drive, WheelOrder[i])
                      /\ i > k => drive.m[WheelOrder[i]] = FreshMotor

\* the construction of wheel 3 has failed: wheels 1 and 2 are released and
\* wheel 4 was never touched
C10_Witness ==
    /\ pc = "init_failed" /\ pending = <<>>
    /\ Len(drive.motors) = 2
    /\ Released(drive, "front_left") /\ Released(drive, "front_right")
    /\ drive.m["rear_right"] = FreshMotor

\* the wheel whose construction fails in a failing Drive(): the one after
\* the wheels that get registered
FailedWheel == WheelOrder[Len(Final.motors) + 1]

\* C11: when the acquisition of one of the four lines fails in
\* BTS7960Motor.__init__, the lines of that driver acquired before it (in
\* the order rpmh, lpmh, r_en, l_en) are closed, the later ones were never
\* acquired, the driver is not initialized, and no channel was at a nonzero
\* duty in any state of the construction; the lines are closed before the
\* exception leaves the constructor, that is before Drive.__init__ starts
\* to clean up the wheels built earlier.
C11_PartialAcquisitionReleased ==
    /\ call.op = "Drive" =>
         \A w \in Wheels, l \in PwmLines : drive.m[w][l].val = Zero
    /\ pc = "init_failed" =>
         /\ Len(Final.motors) < Len(WheelOrder)
         /\ (\E w \in Wheels, l \in Lines :
                 InSeq(w, drive.motors) /\ drive.m[w][l].st = "closed") =>
                \A l \in Lines : drive.m[FailedWheel][l].st # "open"
         /\ pending = <<>> =>
              /\ ~drive.m[FailedWheel].initialized
              /\ \E j \in 1..Len(LineOrder) :
                   /\ <<FailedWheel, LineOrder[j]>> \in call.bad.acq
                   /\ \A i \in 1..Len(LineOrder) :
                        drive.m[FailedWheel][LineOrder[i]].st =
                            (IF i < j THEN "closed" ELSE "none")

\* the acquisition of l_en of the third wheel has failed: its rpmh, lpmh and
\* r_en are closed
C11_Witness ==
    /\ pc = "init_failed" /\ pending = <<>>
    /\ FailedWheel = "rear_left"
    /\ <<"rear_left", "l_en">> \in call.bad.acq
    /\ drive.m["rear_left"].rpmh.st = "closed"
    /\ drive.m["rear_left"].lpmh.st = "closed"
    /\ drive.m["rear_left"].r_en.st = "closed"
    /\ drive.m["rear_left"].l_en.st = "none"

Ahead == <<drive>> \o pending

\* C13: BTS7960Motor.cleanup() never raises, also when a write or the close
\* of a line fails; called on a driver with its four lines open and writes
\* that succeed, both channels are at duty 0 in every state in which one of
\* its lines is closed (the stop comes first); when no device access fails
\* it ends with initialized false and the four lines closed, and a second
\* cleanup() then does not raise and passes through that same state only.
C13_CleanupStopsThenCloses ==
    \A w \in Wheels :
        (call.op = "motor_cleanup" /\ call.wheel = w) =>
            /\ ~call.exc
            /\ (JustIssued /\ call.bad.wr = {}
                  /\ \A l \in Lines : drive.m[w][l].st = "open") =>
                 \A i \in 1..Len(pending) :
                     (\E l \in Lines : pending[i].m[w][l].st = "closed") =>
                         /\ pending[i].m[w].rpmh.val = Zero
                         /\ pending[i].m[w].lpmh.val = Zero
            /\ call.bad = NoBad =>
                 /\ ~Final.m[w].initialized
                 /\ \A l \in Lines : Final.m[w][l].st = "closed"
                 /\ LET again == MotorCleanup(Start(Final), w, NoBad)
                    IN  /\ ~again.exc
                        /\ \A i \in 1..Len(again.tr) : again.tr[i] = Final

\* cleanup() is called on a wheel that runs forward and the close of its
\* third line fails: nothing is raised, the wheel is stopped, the two enable
\* lines are closed and the two PWM lines stay open
C13_Witness ==
    \E w \in Wheels :
        /\ call.op = "motor_cleanup" /\ call.wheel = w /\ JustIssued
        /\ Running(drive, w, "rpmh")
        /\ call.bad.cl = {<<w, "rpmh">>}
        /\ ~call.exc
        /\ ~Running(Final, w, "rpmh")
        /\ Final.m[w].r_en.st = "closed" /\ Final.m[w].l_en.st = "closed"
        /\ Final.m[w].rpmh.st = "open" /\ Final.m[w].lpmh.st = "open"

\* the channel forward, backward and stop write first
FirstLine(op) == IF op = "forward" THEN "lpmh" ELSE "rpmh"

\* a forward, backward or stop on the initialized driver of wheel w has just
\* been called and one of its writes fails
FailingMotorCall(w) ==
    /\ call.op \in {"forward", "backward", "stop"}
    /\ call.wheel = w
    /\ JustIssued
    /\ drive.m[w].initialized
    /\ \E l \in PwmLines : <<w, l>> \in call.bad.wr

\* a whole-chassis call without duration has just been made and a write on
\* wheel w fails in it; v is a wheel it drives after w
FailingChassisCall(w, v) ==
    /\ call.op \in {"all_drive", "all_drive_backward"}
    /\ call.duration = "None"
    /\ JustIssued
    /\ \E l \in PwmLines : <<w, l>> \in call.bad.wr
    /\ v # w
    /\ drive.m[v].initialized

\* the wheels other than the failing one end as the whole-chassis call
\* commands them
OthersCommanded ==
    \A w \in Wheels, v \in Wheels :
        FailingChassisCall(w, v) =>
            /\ ~call.exc
            /\ Final.m[v].rpmh.val =
                 (IF call.op = "all_drive" THEN Applied(call.speed) ELSE Zero)
            /\ Final.m[v].lpmh.val =
                 (IF call.op = "all_drive" THEN Zero ELSE Applied(call.speed))

\* C14 (as claimed): a write that fails inside forward, backward or stop on
\* an initialized driver is swallowed and the call is a no-op: both channel
\* duties end as they were before the call; the coordinator goes on to
\* command the other wheels.
C14_FailedCallIsNoOp ==
    /\ \A w \in Wheels :
         FailingMotorCall(w) =>
             /\ ~call.exc
             /\ Final.m[w].rpmh.val = drive.m[w].rpmh.val
             /\ Final.m[w].lpmh.val = drive.m[w].lpmh.val
    /\ OthersCommanded

\* C14 (amended): a write that fails inside forward, backward or stop on an
\* initialized driver is swallowed; the channel whose write fails keeps its
\* duty, and so does the other one when the failing write is the first of
\* the call, but when it is the second the off() before it has taken
\* effect: the first channel ends at 0. The coordinator goes on to command
\* the other wheels.
C14_FailedWriteSwallowed ==
    /\ \A w \in Wheels :
         FailingMotorCall(w) =>
             /\ ~call.exc
             /\ \A l \in PwmLines :
                  <<w, l>> \in call.bad.wr =>
                      Final.m[w][l].val = drive.m[w][l].val
             /\ <<w, FirstLine(call.op)>> \in call.bad.wr =>
                  Final.m[w] = drive.m[w] /\ call.n = 0
             /\ (<<w, FirstLine(call.op)>> \notin call.bad.wr
                   /\ drive.m[w][FirstLine(call.op)].st = "open") =>
                  Final.m[w][FirstLine(call.op)].val = Zero
    /\ OthersCommanded

\* forward is called on a wheel that runs backward and its duty write fails:
\* nothing is raised and the wheel ends stopped
C14_Witness ==
    \E w \in Wheels :
        /\ FailingMotorCall(w)
        /\ call.op = "forward" /\ call.speed = One
        /\ call.bad.wr = {<<w, "rpmh">>}
        /\ Running(drive, w, "lpmh")
        /\ ~call.exc
        /\ ~Running(Final, w, "lpmh") /\ ~Running(Final, w, "rpmh")

\* the sequence s without the element x
Without(s, x) ==
    LET Keep(y) == y # x
    IN  SelectSeq(s, Keep)

\* the Drive object with wheel v taken out of initialized_motors, and with v
\* taken out of the wheel map as well
Uninitialized(v) ==
    [drive EXCEPT !.initialized_motors = Without(@, v)]
Unmapped(v) ==
    [drive EXCEPT !.initialized_motors = Without(@, v),
                  !.motors = Without(@, v)]

\* the run r is a no-op: no device access, no assignment, no exception
NoOp(r) == Len(r.tr) = 1 /\ ~r.exc

Addresses(c, w) ==
    \/ c.op \in {"forward", "backward", "stop", "motor_cleanup", "drive_wheel"}
         /\ c.wheel = w
    \/ c.op = "front_drive" /\ w \in {"front_left", "front_right"}
    \/ c.op = "back_drive" /\ w \in {"rear_left", "rear_right"}
    \/ c.op \in {"all_drive", "all_drive_backward", "control_all_wheels",
                 "stop_all", "cleanup"}

\* drive_wheel on an initialized wheel returns with both channels at 0 when
\* its duration is finite, and with the forward channel at min(speed, 0.5)
\* and the reverse channel at 0 when its duration is None
DriveWheelReturns ==
    \A w \in Wheels :
        (call.op = "drive_wheel" /\ call.wheel = w /\ pending = <<>>
           /\ drive.m[w].initialized) =>
            /\ drive.m[w].lpmh.val = Zero
            /\ drive.m[w].rpmh.val =
                 (IF call.duration = "None" THEN Applied(call.speed) ELSE Zero)

\* the channels of a wheel change only in a step of a call that commands
\* that wheel
LatchedUntilCommanded ==
    \A w \in Wheels :
        (\E l \in PwmLines : drive'.m[w][l].val # drive.m[w][l].val) =>
            Addresses(call, w)

\* C16: drive_wheel on an initialized wheel with a finite duration returns
\* only after the wheel is stopped (both channels at 0 on return); with
\* duration None it returns with the forward channel at min(speed, 0.5) and
\* the reverse channel at 0, and the channels of the wheel keep their values
\* until a step of a later call that commands that wheel.
C16_LatchedOrTimed == []DriveWheelReturns /\ [][LatchedUntilCommanded]_vars

\* a timed drive_wheel at full speed has just been called on a stopped
\* wheel: its run passes through the forward channel at 0.5 and ends with
\* the wheel stopped
C16_Witness ==
    \E w \in Wheels :
        /\ call.op = "drive_wheel" /\ call.wheel = w /\ JustIssued
        /\ call.duration = "finite" /\ call.speed = One
        /\ drive.m[w].initialized /\ ~Running(drive, w, "rpmh")
        /\ \E i \in 1..Len(pending) : pending[i].m[w].rpmh.val = Rat(1, 2)
        /\ ~Running(Final, w, "rpmh") /\ ~Running(Final, w, "lpmh")

\* the tracking loop is between two ticks
TickDone == pc = "loop" /\ pending = <<>>

SameDuties(d, v, w) ==
    \A l \in PwmLines : d.m[v][l].val = d.m[w][l].val

\* C17: on every tick of the tracking loop, when the whole-chassis command
\* of the tick has completed, front_left and rear_left have the same channel
\* duties and front_right and rear_right have the same channel duties: the
\* speed of their side, in the direction of the command.
C17_SidesMirrored ==
    TickDone =>
        /\ SameDuties(drive, "front_left", "rear_left")
        /\ SameDuties(drive, "front_right", "rear_right")
        /\ call.op = "all_drive" =>
             \A w \in Wheels :
                 /\ drive.m[w].rpmh.val = Applied(SideSpeed(w))
                 /\ drive.m[w].lpmh.val = Zero
        /\ call.op = "all_drive_backward" =>
             \A w \in Wheels :
                 /\ drive.m[w].lpmh.val = Applied(SideSpeed(w))
                 /\ drive.m[w].rpmh.val = Zero

\* a tick that turns has completed: the left wheels run forward at 1/4 and
\* the right wheels at 1/8
C17_Witness ==
    /\ TickDone /\ call.op = "all_drive"
    /\ drive.m["front_left"].rpmh.val = Rat(1, 4)
    /\ drive.m["rear_left"].rpmh.val = Rat(1, 4)
    /\ drive.m["front_right"].rpmh.val = Rat(1, 8)
    /\ drive.m["rear_right"].rpmh.val = Rat(1, 8)

\* one wheel runs forward while another runs in reverse
Mixed(d) ==
    \E v \in Wheels, w \in Wheels :
        v # w /\ Running(d, v, "rpmh") /\ Running(d, w, "lpmh")

\* C18 (as claimed): for any sequence of ticks, there is no state in which
\* one wheel has its forward channel at a nonzero duty while another wheel
\* has its reverse channel at a nonzero duty.
C18_NeverMixed == ~Mixed(drive)

\* C18 (amended): every tick commands one direction for the four wheels, and
\* between two ticks no wheel runs forward while another runs in reverse;
\* such a state occurs only while the whole-chassis command of a tick that
\* reverses the direction switches the wheels one after the other, and
\* after an exception that interrupts it, until the stop_all of the finally
\* block is done.
C18_NoMixBetweenTicks ==
    /\ TickDone => ~Mixed(drive)
    /\ Mixed(drive) =>
         \/ /\ pc = "loop" /\ pending # <<>>
            /\ call.op \in {"all_drive", "all_drive_backward"}
         \/ /\ exit = "exception"
            /\ pc = "finally" \/ (pc = "finally_cleanup" /\ pending # <<>>)
    /\ (pc = "loop" /\ call.op = "all_drive") =>
         \A w \in Wheels : ~Running(Final, w, "lpmh")
    /\ (pc = "loop" /\ call.op = "all_drive_backward") =>
         \A w \in Wheels : ~Running(Final, w, "rpmh")

\* a tick that reverses from forward to backward has just issued its
\* command: its run passes through a state with the front left wheel in
\* reverse and the rear right wheel still forward, and ends unmixed
C18_Witness ==
    /\ pc = "loop" /\ call.op = "all_drive_backward" /\ JustIssued
    /\ \A w \in Wheels : Running(drive, w, "rpmh")
    /\ \E i \in 1..Len(pending) :
         /\ Running(pending[i], "front_left", "lpmh")
         /\ Running(pending[i], "rear_right", "rpmh")
    /\ ~Mixed(Final)
    /\ \A w \in Wheels : Running(Final, w, "lpmh")

\* a speed limited to the range from 0 to 1
Clamped(v) == IF RLt(One, v) THEN One ELSE IF RLt(v, Zero) THEN Zero ELSE v

\* the deviations, the side speeds and the command of the documented
\* instance: target area 300000, box (100, 100, 400, 400), frame width 640
InstanceDeviations ==
    get_deviations(<<100, 100, 400, 400>>,
                   get_human_area(<<100, 100, 400, 400>>), Rat(300000, 1), 640)

\* C19: whenever the tick computes the side speeds, with movement_speed =
\* 0.5 * |area deviation|: left = movement_speed and right = 0.5 *
\* movement_speed when the position deviation is positive, the mirror image
\* when it is negative, both movement_speed when it is 0, each limited to
\* [0, 1]. For target area 300000, box (100, 100, 400, 400) and frame width
\* 640 the deviations are -0.7 and -0.21875 and the command is all_drive
\* with left_speed 0.175 and right_speed 0.35.
C19_SpeedMapping ==
    /\ (tick.present /\ tick.left_speed # NoSpeed) =>
         LET movement_speed == RMul(Rat(1, 2), RAbs(tick.x))
             half == RMul(Rat(1, 2), movement_speed)
         IN  /\ tick.left_speed =
                  Clamped(IF RLt(tick.y, Zero) THEN half ELSE movement_speed)
             /\ tick.right_speed =
                  Clamped(IF RLt(Zero, tick.y) THEN half ELSE movement_speed)
    /\ InstanceDeviations = [x |-> Rat(-7, 10), y |-> Rat(-7, 32)]
    /\ WheelSpeeds(InstanceDeviations) =
         [left_speed |-> Rat(175, 1000), right_speed |-> Rat(35, 100)]
    /\ ControlCall(InstanceDeviations) = "all_drive"

\* a tick with the person too far and to the left: the left side gets half
\* the movement speed
C19_Witness ==
    /\ tick.present
    /\ tick.x = Rat(-1, 2) /\ tick.y = Rat(-9, 20)
    /\ tick.left_speed = Rat(1, 8) /\ tick.right_speed = Rat(1, 4)
    /\ tick.issued = "all_drive"

\* C20: on every tick with no person detected, or with a person detected
\* and no bounding box, the loop calls stop_all, and when the tick ends
\* every channel of every wheel is at duty 0, whatever the earlier ticks
\* latched.
C20_AbsenceStops ==
    (pc = "loop" /\ tick # NoTick /\ (~tick.present \/ tick.box = NoBox)) =>
        /\ tick.issued = "stop_all"
        /\ call.op = "stop_all"
        /\ ~call.exc
        /\ AllOff(Final)

\* a tick with a person detected and no box is issued while the four wheels
\* run in reverse, and its run ends with every channel at 0
C20_Witness ==
    /\ pc = "loop" /\ JustIssued
    /\ tick.present /\ tick.box = NoBox
    /\ call.op = "stop_all"
    /\ \A w \in Wheels : Running(drive, w, "lpmh")
    /\ AllOff(Final)


\* C21 (as claimed): when the command of a tick of the tracking loop has
\* completed, the channels of every wheel are those of the tick's deviation
\* signal: all at 0 when the filtered area deviation is 0, whatever the
\* earlier ticks commanded; the forward channel at the side's speed and the
\* reverse channel at 0 when it is negative; the reverse channel at the
\* side's speed and the forward channel at 0 when it is positive.
C21_SignalAloneDecides ==
    (TickDone /\ tick # NoTick) =>
        \A w \in Wheels :
            /\ tick.x = Zero =>
                 /\ drive.m[w].rpmh.val = Zero
                 /\ drive.m[w].lpmh.val = Zero
            /\ RLt(tick.x, Zero) =>
                 /\ drive.m[w].rpmh.val = Applied(SideSpeed(w))
                 /\ drive.m[w].lpmh.val = Zero
            /\ RLt(Zero, tick.x) =>
                 /\ drive.m[w].rpmh.val = Zero
                 /\ drive.m[w].lpmh.val = Applied(SideSpeed(w))


\* the Drive object in which the lines of the driver of wheel w are open:
\* with initialized false, a driver whose constructor failed and whose
\* cleanup could not close what it had acquired
Unclosed(w) ==
    [drive EXCEPT !.m[w].rpmh.st = "open", !.m[w].lpmh.st = "open",
                  !.m[w].r_en.st = "open", !.m[w].l_en.st = "open"]

\* cleanup() of the driver of wheel w in which the close of line l raises:
\* it raises nothing and leaves the driver as it was
CleanupAgain(w, l) ==
    ~MotorCleanup(Start(drive), w, [NoBad EXCEPT !.cl = {<<w, l>>}]).exc
    /\ Cur(MotorCleanup(Start(drive), w, [NoBad EXCEPT !.cl = {<<w, l>>}])).m[w]
         = drive.m[w]

\* C22: a driver whose initialized flag is false is left alone by every
\* later call. A call issued while the driver of a wheel is uninitialized
\* (forward, backward, stop, drive_wheel, an axle or whole-chassis command,
\* stop_all, cleanup) raises nothing and passes through no state in which a
\* line of that driver, its duty or its flag differs. forward, backward and
\* stop return before any device access even if the lines of the driver
\* were still open, and a later cleanup() raises nothing and changes nothing,
\* also when a close raises.
C22_UninitializedIsInert ==
    /\ JustIssued =>
         \A w \in Wheels :
            ~drive.m[w].initialized =>
                /\ ~call.exc
                /\ \A i \in 1..Len(pending) : pending[i].m[w] = drive.m[w]
    /\ pending = <<>> =>
         \A w \in Wheels :
            ~drive.m[w].initialized =>
                /\ NoOp(MotorForward(Start(Unclosed(w)), w, One, NoBad))
                /\ NoOp(MotorBackward(Start(Unclosed(w)), w, One, NoBad))
                /\ NoOp(MotorStop(Start(Unclosed(w)), w, NoBad))
                /\ \A l \in Lines : CleanupAgain(w, l)

\* all_drive is issued after cleanup() of the driver of front_left: the
\* call reaches that driver, leaves it closed at the duty it had, and sets
\* the other three wheels running
C22_Witness ==
    /\ JustIssued /\ call.op = "all_drive"
    /\ ~drive.m["front_left"].initialized
    /\ \A l \in Lines : drive.m["front_left"][l].st = "closed"
    /\ Final.m["front_left"] = drive.m["front_left"]
    /\ \A w \in Wheels \ {"front_left"} :
         drive.m[w].initialized /\ ~Running(drive, w, "rpmh")
           /\ Running(Final, w, "rpmh")


\* a step leaves the target area alone once it is set, and a step that
\* sets it is the first iteration of the loop and sets it to
\* width * height * HUMAN_AREA_TARGET of the frame of that iteration
TargetOnce ==
    /\ target_human_area # NoTarget => target_human_area' = target_human_area
    /\ (target_human_area = NoTarget /\ tick' # tick) =>
         /\ tick = NoTick
         /\ target_human_area' =
              RMul(Rat(tick'.frame_width * tick'.frame_height, 1),
                   HUMAN_AREA_TARGET)
    /\ (target_human_area = NoTarget /\ tick' = tick) =>
         target_human_area' = NoTarget

\* C23: the target area is computed exactly once, in the first iteration of
\* the loop, as frame_width * frame_height * HUMAN_AREA_TARGET of the first
\* frame read, and no later step changes it, also when a later frame has
\* another size.
C23_TargetFixed == [][TargetOnce]_vars

\* the first frame was 200 x 100 and the frame of a later tick is 400 x 200:
\* the target is still 6660, and a box of area 13320 is measured against it
\* (area deviation 1, where the size of the present frame would give -1/2)
C23_Witness ==
    /\ pc = "loop" /\ pending = <<>>
    /\ tick.frame_width = 400 /\ tick.frame_height = 200
    /\ target_human_area = Rat(6660, 1)
    /\ tick.present /\ get_human_area(tick.box) = 13320
    /\ tick.area_dev = One
    /\ call.op = "all_drive_backward"

====
